---- MODULE Spec2Model ----
(***************************************************************************)
(* A model of src/src/lib.rs: the State struct (surface configuration,     *)
(* stored size, rotation angle, uniform buffer), its methods resize,       *)
(* input, update and render, and the event-loop closure of run().          *)
(*                                                                         *)
(* The windowing and GPU libraries are seen through the calls the code     *)
(* makes on them: every call is appended to `calls`, the surface keeps the *)
(* configuration of the last Surface::configure call, and the result of    *)
(* Surface::get_current_texture is an input of the redraw event.           *)
(***************************************************************************)
EXTENDS Integers, Sequences, FiniteSets

(***************************************************************************)
(* Bounds of the model.                                                    *)
(***************************************************************************)
\* window widths and heights range over 0..MaxDim
MaxDim == 2
\* at most MaxFrames redraw events are processed in one behaviour
MaxFrames == 4

(***************************************************************************)
(* f32 arithmetic.  A non-negative finite f32 is [m, e] with value m * 2^e,*)
(* where m = 0 (and e = 0) for zero and 2^23 <= m < 2^24 otherwise.        *)
(***************************************************************************)
\* width of the f32 significand, hidden bit included
MantissaBits == 24

RECURSIVE Pow2(_)
Pow2(n) == IF n <= 0 THEN 1 ELSE 2 * Pow2(n - 1)

MantissaMin == Pow2(MantissaBits - 1)
MantissaMax == Pow2(MantissaBits)

F32Zero == [m |-> 0, e |-> 0]

\* the f32 nearest to the literal 0.001: 8589935 * 2^-33
StepMantissa == 8589935
StepExponent == -33
ANGLE_STEP == [m |-> StepMantissa, e |-> StepExponent]

F32Less(a, b) ==
    IF a.m = 0 THEN b.m > 0
    ELSE IF b.m = 0 THEN FALSE
    ELSE a.e < b.e \/ (a.e = b.e /\ a.m < b.m)

F32Leq(a, b) == a = b \/ F32Less(a, b)

\* a significand that reached 2^24 is renormalised
F32Carry(m, e) ==
    IF m = MantissaMax THEN [m |-> MantissaMin, e |-> e + 1]
    ELSE [m |-> m, e |-> e]

\* F32Round with the sum cut off (rounded toward zero)
F32RoundTowardZero(S, r, unit, e) ==
    IF S < MantissaMax THEN F32Carry(S, e) ELSE F32Carry(S \div 2, e + 1)

\* The exact sum is (S + r / unit) * 2^e with 0 <= r < unit and
\* 2^23 <= S < 2^25; the result is the f32 nearest to it, ties to even.
F32Round(S, r, unit, e) ==
    IF S < MantissaMax
    THEN F32Carry(IF (2 * r > unit) \/ (2 * r = unit /\ S % 2 = 1)
                  THEN S + 1 ELSE S, e)
    ELSE F32Carry(IF (S % 2 = 1) /\ (r > 0 \/ (S \div 2) % 2 = 1)
                  THEN (S \div 2) + 1 ELSE S \div 2, e + 1)

\* IEEE-754 binary32 addition of two positive values, hi the one with the
\* larger exponent: lo is split into the part that lines up with hi's
\* significand and the remainder below hi's last place.
F32AddOrdered(hi, lo) ==
    IF hi.e - lo.e > MantissaBits + 1 THEN hi
    ELSE F32Round(hi.m + (lo.m \div Pow2(hi.e - lo.e)),
                  lo.m % Pow2(hi.e - lo.e), Pow2(hi.e - lo.e), hi.e)

F32Add(a, b) ==
    IF a.m = 0 THEN b
    ELSE IF b.m = 0 THEN a
    ELSE IF a.e >= b.e THEN F32AddOrdered(a, b) ELSE F32AddOrdered(b, a)

(***************************************************************************)
(* glam::Mat4.  An element is a literal or sin / cos / -sin of an f32; the *)
(* trigonometric functions are left uninterpreted except at 0, where       *)
(* sin_cos gives (0.0, 1.0).  -0.0 and 0.0 are the same number.            *)
(***************************************************************************)
Lit0 == [fn |-> "0.0", arg |-> F32Zero]
Lit1 == [fn |-> "1.0", arg |-> F32Zero]

sin(a) == IF a = F32Zero THEN Lit0 ELSE [fn |-> "sin", arg |-> a]
cos(a) == IF a = F32Zero THEN Lit1 ELSE [fn |-> "cos", arg |-> a]
neg(x) == IF x = Lit0 THEN Lit0 ELSE [fn |-> "neg_" \o x.fn, arg |-> x.arg]

\* Mat4::IDENTITY.to_cols_array()
IDENTITY == << Lit1, Lit0, Lit0, Lit0,
               Lit0, Lit1, Lit0, Lit0,
               Lit0, Lit0, Lit1, Lit0,
               Lit0, Lit0, Lit0, Lit1 >>

\* the columns (cos, sin, 0, 0), (-sin, cos, 0, 0), Z, W, one after the other
rotation_cols(sina, cosa) ==
    << cosa, sina, Lit0, Lit0,
       neg(sina), cosa, Lit0, Lit0,
       Lit0, Lit0, Lit1, Lit0,
       Lit0, Lit0, Lit0, Lit1 >>

\* Mat4::from_rotation_z(angle).to_cols_array()
from_rotation_z(angle) == rotation_cols(sin(angle), cos(angle))

(***************************************************************************)
(* The program's state.                                                    *)
(***************************************************************************)
VARIABLES
    size,             \* State.size: [width, height]
    config,           \* State.config: the width and height of the SurfaceConfiguration
    surface,          \* the configuration the surface was last configured with
    rotation_angle,   \* State.rotation_angle: f32
    uniform_buffer,   \* the 16 f32 of the uniform buffer, as the queue has them
    control_flow,     \* "Running", "Exiting" (exit() was called) or "Exited"
    redraw_requested, \* window.request_redraw() is pending
    event,            \* the event of the last closure invocation
    calls,            \* the library calls of the last closure invocation, in order
    result,           \* what render() returned in the last closure invocation
    drawn,            \* the draw call of the last closure invocation
    n_update          \* number of update() calls so far

vars == << size, config, surface, rotation_angle, uniform_buffer, control_flow,
           redraw_requested, event, calls, result, drawn, n_update >>

Dims == 0 .. MaxDim
PhysicalSize == [width : Dims, height : Dims]

\* wgpu::SurfaceError, and "Ok" for a texture
SurfaceError == {"Timeout", "Outdated", "Lost", "OutOfMemory"}
Acquired == {"Ok"} \cup SurfaceError

NoDraw == [vertices |-> 0, instances |-> 0, transform |-> IDENTITY]

\* the State struct together with the effects of one closure invocation
Current ==
    [ size |-> size, config |-> config, surface |-> surface,
      rotation_angle |-> rotation_angle, uniform_buffer |-> uniform_buffer,
      calls |-> << >>, result |-> "None", drawn |-> NoDraw, exit |-> FALSE ]

Call(st, op) == [st EXCEPT !.calls = Append(@, op)]

(***************************************************************************)
(* impl State                                                              *)
(***************************************************************************)
\* Surface::configure(&device, &config)
configure(st) == [Call(st, "configure") EXCEPT !.surface = st.config]

\* resize that stores the new size and leaves the surface as it was
resize_no_configure(st, new_size) ==
    IF new_size.width > 0 /\ new_size.height > 0
    THEN [st EXCEPT !.size = new_size,
                    !.config = [width |-> new_size.width,
                                height |-> new_size.height]]
    ELSE st

\* resize without the test for a zero area
resize_unguarded(st, new_size) ==
    configure([st EXCEPT !.size = new_size,
                         !.config = [width |-> new_size.width,
                                     height |-> new_size.height]])

resize(st, new_size) ==
    IF new_size.width > 0 /\ new_size.height > 0
    THEN configure([st EXCEPT !.size = new_size,
                              !.config = [width |-> new_size.width,
                                          height |-> new_size.height]])
    ELSE st

input(st, ev) == FALSE

\* queue.write_buffer(&uniform_buffer, 0, ..) of the matrix of angle
write_buffer(st, angle) ==
    [Call(st, "write_buffer") EXCEPT !.uniform_buffer = from_rotation_z(angle)]

\* update that writes the matrix of the angle before the increment
update_stale(st) ==
    write_buffer([Call(st, "update") EXCEPT
                     !.rotation_angle = F32Add(@, ANGLE_STEP)],
                 st.rotation_angle)

update(st) ==
    write_buffer([Call(st, "update") EXCEPT
                     !.rotation_angle = F32Add(@, ANGLE_STEP)],
                 F32Add(st.rotation_angle, ANGLE_STEP))

\* surface.get_current_texture()
get_current_texture(st) == Call(Call(st, "render"), "get_current_texture")

\* the render pass: begin_render_pass, set_pipeline, set_bind_group
begin_render_pass(st) ==
    Call(Call(Call(st, "begin_render_pass"), "set_pipeline"), "set_bind_group")

\* render_pass.draw(0..6, 0..1), which reads the uniform buffer
draw(st) ==
    [Call(st, "draw") EXCEPT !.drawn = [vertices |-> 6, instances |-> 1,
                                        transform |-> st.uniform_buffer]]

\* queue.submit, output.present, Ok(())
submit_present(st) ==
    [Call(Call(st, "submit"), "present") EXCEPT !.result = "Ok"]

\* render that submits an empty command buffer when no texture was acquired
render_submit_always(st, acquired) ==
    IF acquired # "Ok"
    THEN [Call(get_current_texture(st), "submit") EXCEPT !.result = acquired]
    ELSE submit_present(draw(begin_render_pass(get_current_texture(st))))

\* acquired is what surface.get_current_texture() gives
render(st, acquired) ==
    IF acquired # "Ok"
    THEN [get_current_texture(st) EXCEPT !.result = acquired]
    ELSE submit_present(draw(begin_render_pass(get_current_texture(st))))

(***************************************************************************)
(* Events.  window_id "app" is state.window().id(); kind "Other" with a    *)
(* window id stands for the window events the closure has no arm for, and  *)
(* kind "NonWindow" for the events that are no Event::WindowEvent          *)
(* (NewEvents, AboutToWait, LoopExiting, ...).  acquired is what           *)
(* get_current_texture gives if the closure asks for a frame.              *)
(***************************************************************************)
WindowIds == {"app", "other"}
Kinds == {"CloseRequested", "KeyboardInput", "Resized", "RedrawRequested",
          "Other", "NonWindow"}
ElementState == {"Pressed", "Released"}
KeyCode == {"Escape", "KeyA"}

Event(kind, id, key, st, sz, acq) ==
    [size |-> sz, acquired |-> acq, kind |-> kind, key |-> key,
     window_id |-> id, state |-> st]

NoSize == [width |-> 0, height |-> 0]
StartEvent == Event("Start", "app", "KeyA", "Released", NoSize, "Ok")

\* control_flow.exit()
exit(st) == [Call(st, "exit") EXCEPT !.exit = TRUE]

\* the match on render's result with a timeout treated like out-of-memory
on_result_timeout_fatal(st) ==
    CASE st.result = "Ok" -> st
      [] st.result \in {"Lost", "Outdated"} -> resize(st, st.size)
      [] st.result \in {"OutOfMemory", "Timeout"} -> exit(st)

\* the match on what render returned
on_result(st) ==
    CASE st.result = "Ok" -> st
      [] st.result \in {"Lost", "Outdated"} -> resize(st, st.size)
      [] st.result = "OutOfMemory" -> exit(st)
      [] st.result = "Timeout" -> Call(st, "log::warn")

\* update called only once the frame was presented
update_if_presented(st) == IF st.result = "Ok" THEN update(st) ELSE st

\* the redraw arm with render first and update only for a presented frame
redraw_update_after(st, acquired) ==
    on_result(update_if_presented(render(st, acquired)))

\* the WindowEvent::RedrawRequested arm
redraw(st, acquired) == on_result(render(update(st), acquired))

\* the match with the Escape arm taking a key event in any ElementState
dispatch_any_escape(st, ev) ==
    IF ev.kind = "NonWindow" \/ ev.window_id # "app" THEN st
    ELSE IF input(st, ev) THEN st
    ELSE CASE ev.kind = "CloseRequested"
              \/ (ev.kind = "KeyboardInput" /\ ev.key = "Escape") -> exit(st)
           [] ev.kind = "Resized" -> resize(st, ev.size)
           [] ev.kind = "RedrawRequested" -> redraw(st, ev.acquired)
           [] OTHER -> st

\* match event { ... }
dispatch(st, ev) ==
    IF ev.kind = "NonWindow" \/ ev.window_id # "app" THEN st
    ELSE IF input(st, ev) THEN st
    ELSE CASE ev.kind = "CloseRequested"
              \/ (ev.kind = "KeyboardInput" /\ ev.state = "Pressed"
                  /\ ev.key = "Escape") -> exit(st)
           [] ev.kind = "Resized" -> resize(st, ev.size)
           [] ev.kind = "RedrawRequested" -> redraw(st, ev.acquired)
           [] OTHER -> st

\* the closure given to event_loop.run
closure(st, ev) == dispatch(Call(st, "request_redraw"), ev)

Count(seq, op) == Cardinality({i \in 1 .. Len(seq) : seq[i] = op})

(***************************************************************************)
(* State::new and run(): the state when the event loop starts.  The size   *)
(* is whatever window.inner_size() returns; the code does not look at it.  *)
(***************************************************************************)
Init ==
    /\ size \in PhysicalSize
    /\ config = size
    /\ surface = size
    /\ rotation_angle = F32Zero
    /\ uniform_buffer = IDENTITY
    /\ control_flow = "Running"
    /\ redraw_requested = FALSE
    /\ event = StartEvent
    /\ calls = << "configure" >>
    /\ result = "None"
    /\ drawn = NoDraw
    /\ n_update = 0

\* event_loop.run has not returned: the closure is still invoked
Alive == control_flow \in {"Running", "Exiting"}

\* the variables after an invocation of the closure on ev that ended in st
Commit(st, ev) ==
    /\ size' = st.size
    /\ config' = st.config
    /\ surface' = st.surface
    /\ rotation_angle' = st.rotation_angle
    /\ uniform_buffer' = st.uniform_buffer
    /\ control_flow' = IF st.exit THEN "Exiting" ELSE control_flow
    /\ redraw_requested' = (redraw_requested \/ Count(st.calls, "request_redraw") > 0)
    /\ event' = ev
    /\ calls' = st.calls
    /\ result' = st.result
    /\ drawn' = st.drawn
    /\ n_update' = n_update + Count(st.calls, "update")

\* one invocation of the closure on event ev
Deliver(ev) == Commit(closure(Current, ev), ev)

CloseRequested ==
    /\ Alive
    /\ \E id \in WindowIds :
        Deliver(Event("CloseRequested", id, "KeyA", "Released", NoSize, "Ok"))

KeyboardInput ==
    /\ Alive
    /\ \E id \in WindowIds, key \in KeyCode, ks \in ElementState :
        Deliver(Event("KeyboardInput", id, key, ks, NoSize, "Ok"))

Resized ==
    /\ Alive
    /\ \E id \in WindowIds, new_size \in PhysicalSize :
        Deliver(Event("Resized", id, "KeyA", "Released", new_size, "Ok"))

RedrawRequested ==
    /\ Alive
    /\ n_update < MaxFrames
    /\ \E id \in WindowIds, acquired \in Acquired :
        Deliver(Event("RedrawRequested", id, "KeyA", "Released", NoSize, acquired))

OtherEvent ==
    /\ Alive
    /\ \E k \in {"Other", "NonWindow"}, id \in WindowIds :
        Deliver(Event(k, id, "KeyA", "Released", NoSize, "Ok"))

\* event_loop.run returns once exit() was called
LoopExit ==
    /\ control_flow = "Exiting"
    /\ control_flow' = "Exited"
    /\ UNCHANGED << size, config, surface, rotation_angle, uniform_buffer,
                    redraw_requested, event, calls, result, drawn, n_update >>

Next ==
    \/ CloseRequested
    \/ KeyboardInput
    \/ Resized
    \/ RedrawRequested
    \/ OtherEvent
    \/ LoopExit

Spec == Init /\ [][Next]_vars

(***************************************************************************)
(* Vocabulary of the properties.                                           *)
(***************************************************************************)
\* the step is an invocation of the closure (LoopExit is the only other step)
Delivered == control_flow' # "Exited"

ToApp(ev, kind) == ev.kind = kind /\ ev.window_id = "app"

Positive(sz) == sz.width > 0 /\ sz.height > 0

EscapePressed(ev) ==
    ToApp(ev, "KeyboardInput") /\ ev.key = "Escape" /\ ev.state = "Pressed"

\* the position of the first op in seq, Len(seq) + 1 if there is none
RECURSIVE IndexFrom(_, _, _)
IndexFrom(seq, op, i) ==
    IF i > Len(seq) \/ seq[i] = op THEN i ELSE IndexFrom(seq, op, i + 1)
Index(seq, op) == IndexFrom(seq, op, 1)

\* value and unit in the last place of an angle, in units of 2^StepExponent
Units(a) == IF a.m = 0 THEN 0 ELSE a.m * Pow2(a.e - StepExponent)
UlpUnits(a) == IF a.m = 0 THEN 0 ELSE Pow2(a.e - StepExponent)
Abs(x) == IF x < 0 THEN -x ELSE x
IsF32(a) == a = F32Zero \/ (a.m >= MantissaMin /\ a.m < MantissaMax)

\* the 4x4 matrix of a rotation about Z by angle a, as rows
RotationZ(a) ==
    << << cos(a), neg(sin(a)), Lit0, Lit0 >>,
       << sin(a), cos(a),      Lit0, Lit0 >>,
       << Lit0,   Lit0,        Lit1, Lit0 >>,
       << Lit0,   Lit0,        Lit0, Lit1 >> >>

\* the 16 elements of M column after column
ColumnMajor(M) == [i \in 1 .. 16 |-> M[((i - 1) % 4) + 1][((i - 1) \div 4) + 1]]

(***************************************************************************)
(* C1.  After a Resized event for the application's window whose width and *)
(* height are both positive, size is the new size, config.width and        *)
(* config.height are its width and height, and the closure configured the  *)
(* surface exactly once, with that configuration.                          *)
(***************************************************************************)
C1_ResizePositive ==
    (ToApp(event, "Resized") /\ Positive(event.size)) =>
        /\ size = event.size
        /\ config.width = event.size.width
        /\ config.height = event.size.height
        /\ Count(calls, "configure") = 1
        /\ surface = config

\* a resize to 2 x 1 was handled
C1_Witness ==
    /\ ToApp(event, "Resized")
    /\ event.size = [width |-> 2, height |-> 1]
    /\ surface = [width |-> 2, height |-> 1]

(***************************************************************************)
(* C2.  A Resized event with a zero width or a zero height leaves size,    *)
(* config, the surface, the rotation angle, the uniform buffer and the     *)
(* loop state as they were, and the surface is not configured.             *)
(***************************************************************************)
C2_ResizeZeroIgnored ==
    [][(Delivered /\ ToApp(event', "Resized") /\ ~Positive(event'.size)) =>
          /\ size' = size
          /\ config' = config
          /\ surface' = surface
          /\ Count(calls', "configure") = 0
          /\ rotation_angle' = rotation_angle
          /\ uniform_buffer' = uniform_buffer
          /\ n_update' = n_update
          /\ control_flow' = control_flow]_vars

\* a resize to 0 x 2 was handled while the size is 1 x 1
C2_Witness ==
    /\ ToApp(event, "Resized")
    /\ event.size = [width |-> 0, height |-> 2]
    /\ size = [width |-> 1, height |-> 1]
    /\ surface = size

(***************************************************************************)
(* C3.  Whenever render returns Lost or Outdated during a redraw, the      *)
(* closure configures the surface (once) with the stored size, which it    *)
(* leaves as it was, and the loop state does not change; in every          *)
(* reachable state, also before any Resized event.                         *)
(***************************************************************************)
C3_RecoveryReconfigures ==
    [][(Delivered /\ ToApp(event', "RedrawRequested")
        /\ result' \in {"Lost", "Outdated"}) =>
          /\ Count(calls', "configure") = 1
          /\ size' = size
          /\ surface' = size
          /\ control_flow' = control_flow]_vars

(***************************************************************************)
(* C4.  A redraw event makes the loop exit if and only if render returned  *)
(* OutOfMemory: then exit() is called and a Running loop is Exiting; on    *)
(* Ok, Lost, Outdated and Timeout the loop state is unchanged, and Timeout *)
(* logs a warning and configures nothing.                                  *)
(***************************************************************************)
C4_ExitIffOutOfMemory ==
    [][(Delivered /\ ToApp(event', "RedrawRequested")) =>
          /\ result' \in Acquired
          /\ (result' = "OutOfMemory") <=> (Count(calls', "exit") = 1)
          /\ (result' = "OutOfMemory") => control_flow' = "Exiting"
          /\ (result' # "OutOfMemory") =>
                (control_flow' = control_flow /\ Count(calls', "exit") = 0)
          /\ (result' = "Timeout") =>
                /\ Count(calls', "log::warn") = 1
                /\ Count(calls', "configure") = 0
                /\ size' = size /\ config' = config /\ surface' = surface]_vars

\* an OutOfMemory frame ended a Running loop
C4_Witness ==
    /\ ToApp(event, "RedrawRequested")
    /\ result = "OutOfMemory"
    /\ control_flow = "Exiting"
    /\ n_update >= 2

(***************************************************************************)
(* C5 as stated: the angle is exactly n times the increment after n calls  *)
(* of update.                                                              *)
(***************************************************************************)
C5_ExactMultiple == Units(rotation_angle) = n_update * StepMantissa

(***************************************************************************)
(* C5, amended.  The angle starts at 0 and never decreases; a call of      *)
(* update replaces it by the f32 sum of the angle and the increment, which *)
(* is within half a unit in the last place of the angle plus the increment *)
(* (rounding to nearest); no other operation changes it.                   *)
(***************************************************************************)
C5_RoundedIncrement ==
    /\ rotation_angle = F32Zero
    /\ [][/\ F32Leq(rotation_angle, rotation_angle')
          /\ (n_update' = n_update) => (rotation_angle' = rotation_angle)
          /\ (n_update' = n_update + 1) =>
                /\ IsF32(rotation_angle')
                /\ 2 * Abs(Units(rotation_angle')
                           - (Units(rotation_angle) + StepMantissa))
                      <= UlpUnits(rotation_angle')]_vars

\* the third update rounded: the angle is one unit short of three increments
C5_Witness ==
    /\ n_update = 3
    /\ Units(rotation_angle) = 3 * StepMantissa - 1
    /\ rotation_angle.e = StepExponent + 1

(***************************************************************************)
(* C6.  A CloseRequested event or a press of Escape for the application's  *)
(* window makes a Running loop Exiting and leaves size, config, the        *)
(* surface, the rotation angle and the uniform buffer alone; a key event   *)
(* that is not a press of Escape, and any event for another window id,     *)
(* call no exit and leave the loop state as it was.                        *)
(***************************************************************************)
C6_ExitOnCloseOrEscape ==
    [][Delivered =>
          /\ (ToApp(event', "CloseRequested") \/ EscapePressed(event')) =>
                /\ control_flow' = "Exiting"
                /\ Count(calls', "exit") = 1
                /\ size' = size /\ config' = config /\ surface' = surface
                /\ rotation_angle' = rotation_angle
                /\ uniform_buffer' = uniform_buffer
          /\ ((event'.kind = "KeyboardInput" /\ ~EscapePressed(event'))
              \/ event'.window_id # "app") =>
                /\ control_flow' = control_flow
                /\ Count(calls', "exit") = 0]_vars

\* Escape was pressed in the application's window after two frames
C6_Witness ==
    /\ EscapePressed(event)
    /\ control_flow = "Exiting"
    /\ n_update = 2

(***************************************************************************)
(* C7.  render asks for the surface texture once; when that fails it       *)
(* returns the same error, with no render pass, no draw, no submit and no  *)
(* present; when it succeeds it records one render pass with one draw of 6 *)
(* vertices and 1 instance, then submits once, presents once and returns   *)
(* Ok.                                                                     *)
(***************************************************************************)
C7_RenderContract ==
    ToApp(event, "RedrawRequested") =>
        /\ Count(calls, "render") = 1
        /\ Count(calls, "get_current_texture") = 1
        /\ result = event.acquired
        /\ (event.acquired \in SurfaceError) =>
              /\ Count(calls, "begin_render_pass") = 0
              /\ Count(calls, "draw") = 0
              /\ Count(calls, "submit") = 0
              /\ Count(calls, "present") = 0
              /\ drawn = NoDraw
        /\ (event.acquired = "Ok") =>
              /\ Count(calls, "begin_render_pass") = 1
              /\ Count(calls, "draw") = 1
              /\ drawn.vertices = 6
              /\ drawn.instances = 1
              /\ Count(calls, "submit") = 1
              /\ Count(calls, "present") = 1
              /\ Index(calls, "get_current_texture") < Index(calls, "draw")
              /\ Index(calls, "draw") < Index(calls, "submit")
              /\ Index(calls, "submit") < Index(calls, "present")

\* a frame whose texture timed out, after a frame was drawn
C7_Witness ==
    /\ ToApp(event, "RedrawRequested")
    /\ result = "Timeout"
    /\ Count(calls, "submit") = 0
    /\ n_update >= 2

(***************************************************************************)
(* C8.  In every state the uniform buffer holds the column-major matrix of *)
(* the rotation about Z by the current rotation angle (the identity while  *)
(* the angle is 0), and the matrix a draw read is that matrix.             *)
(***************************************************************************)
C8_UniformIsRotation ==
    /\ uniform_buffer = ColumnMajor(RotationZ(rotation_angle))
    /\ (rotation_angle = F32Zero) => (uniform_buffer = IDENTITY)
    /\ (drawn # NoDraw) =>
          drawn.transform = ColumnMajor(RotationZ(rotation_angle))

\* a frame was drawn after the second update
C8_Witness ==
    /\ n_update = 2
    /\ drawn.vertices = 6
    /\ drawn.transform # IDENTITY
    /\ drawn.transform[2] = [fn |-> "sin", arg |-> rotation_angle]

(***************************************************************************)
(* C9.  A redraw event for the application's window calls update once and  *)
(* then render once, and configures, exits or warns only after render; the *)
(* angle advances by one f32 increment whatever render returns, and a      *)
(* frame whose render failed presents nothing.                             *)
(***************************************************************************)
C9_UpdateThenRender ==
    [][(Delivered /\ ToApp(event', "RedrawRequested")) =>
          /\ Count(calls', "update") = 1
          /\ Count(calls', "render") = 1
          /\ Index(calls', "update") < Index(calls', "render")
          /\ \A i \in 1 .. Len(calls') :
                calls'[i] \in {"configure", "exit", "log::warn"} =>
                    i > Index(calls', "get_current_texture")
          /\ n_update' = n_update + 1
          /\ rotation_angle' = F32Add(rotation_angle, ANGLE_STEP)
          /\ (result' # "Ok") => Count(calls', "present") = 0]_vars

\* the third update belongs to a frame that was lost
C9_Witness ==
    /\ ToApp(event, "RedrawRequested")
    /\ result = "Lost"
    /\ n_update = 3
    /\ Count(calls, "present") = 0
    /\ Units(rotation_angle) > 2 * StepMantissa

(***************************************************************************)
(* C10.  In every state size is (config.width, config.height), and the     *)
(* surface is not configured with a zero width or a zero height.           *)
(***************************************************************************)
C10_NeverZeroArea ==
    /\ size = [width |-> config.width, height |-> config.height]
    /\ Positive(surface)

====
